---- MODULE Spec2Model ----
(***************************************************************************)
(* Model of the golang Dagger module (src/golang/main.go) and of the       *)
(* Utils.Multisync helper (src/unnamed/part_001).                          *)
(*                                                                         *)
(* Containers are immutable values of the engine; a *Container of the Go   *)
(* code is a handle into `heap`.  Every chain of With... calls builds a    *)
(* new value and stores it under a fresh handle.  The handle Nil is the Go *)
(* nil pointer: calling a method on it panics.                             *)
(***************************************************************************)
EXTENDS Integers, Sequences, FiniteSets, TLC

VARIABLES
    heap,        \* container values, indexed by handle (1..Len(heap))
    Ctr,         \* g.Ctr: handle of the session's current container
    Proj,        \* g.Proj: the session's project tree
    constructed, \* New has returned a *Golang
    panicked,    \* a nil dereference ended the call (and the session)
    panicAt,     \* the source place of the panic
    lastOp,      \* name of the last public function called
    ret,         \* what the last call returned
    prepCalls,   \* number of prepare invocations so far
    prepLog,     \* what the last prepare call did
    attachLog,   \* what the last Attach call did
    services,    \* every service descriptor built so far, with its version
    svcCalls,    \* number of Service invocations so far
    nops,        \* number of public calls so far
    lastSource,  \* the source argument of the last call (NilDir: none)
    ms           \* state of the Multisync call

vars == <<heap, Ctr, Proj, constructed, panicked, panicAt, lastOp, ret,
          prepCalls, prepLog, attachLog, services, svcCalls, nops,
          lastSource, ms>>

coreVars == <<heap, Ctr, Proj, constructed, panicked, panicAt, lastOp, ret,
              prepCalls, prepLog, attachLog, services, svcCalls, nops,
              lastSource>>

----------------------------------------------------------------------------
(* Bounds *)

MaxOps == 3
MaxCtrs == 5

----------------------------------------------------------------------------
(* Program constants *)

DEFAULT_GO == "1.23.4"
PROJ_MOUNT == "/src"
LINT_IMAGE == "golangci/golangci-lint:latest"
OUT_DIR == "/out/"
ATTACH_VERSION == "24.0"
HostArch == "amd64"
HostOS == "linux"

----------------------------------------------------------------------------
(* Values of the engine *)

Nil == 0

NilDir == [kind |-> "nil", of |-> 0, path |-> ""]

\* a source tree handed in by the caller
Tree(name) == [kind |-> "tree", of |-> 0, path |-> name]

\* dag.Git("https://" + remote).Branch(ref).Tree()
GitTree(remote, ref) == [kind |-> "git", of |-> 0, path |-> "https://" \o remote \o "#" \o ref]

\* (*Container).Directory(path): a directory inside the container of handle h
CtrDirectory(h, path) == [kind |-> "ctr", of |-> h, path |-> path]

\* (*Directory).Directory(sub)
SubDirectory(d, sub) == [d EXCEPT !.path = @ \o "/" \o sub]

Digits == <<"0", "1", "2", "3", "4", "5", "6", "7", "8", "9">>

\* decimal formatting of a natural number (fmt %v / %d)
RECURSIVE Itoa(_)
Itoa(n) == IF n < 10 THEN Digits[n + 1]
           ELSE Itoa(n \div 10) \o Digits[(n % 10) + 1]

EmptyCtr == [image |-> "", caches |-> {}, dirs |-> {}, env |-> {},
             workdir |-> "", bindings |-> {}, ports |-> {}, files |-> {},
             execs |-> <<>>]

From(image) == [EmptyCtr EXCEPT !.image = image]

WithMountedCache(c, path, volume, sharing) ==
    [c EXCEPT !.caches = {m \in @ : m[1] # path} \cup {<<path, volume, sharing>>}]

WithMountedDirectory(c, path, dir) ==
    [c EXCEPT !.dirs = {m \in @ : m[1] # path} \cup {<<path, "mount", dir>>}]

WithDirectory(c, path, dir) ==
    [c EXCEPT !.dirs = {m \in @ : m[1] # path} \cup {<<path, "copy", dir>>}]

WithEnvVariable(c, name, value) ==
    [c EXCEPT !.env = {e \in @ : e[1] # name} \cup {<<name, value>>}]

WithWorkdir(c, path) == [c EXCEPT !.workdir = path]

WithServiceBinding(c, alias, svc) ==
    [c EXCEPT !.bindings = {b \in @ : b[1] # alias} \cup {<<alias, svc>>}]

WithExposedPort(c, port) == [c EXCEPT !.ports = @ \cup {port}]

WithExec(c, args, insecure) ==
    [c EXCEPT !.execs = Append(@, [args |-> args, insecure |-> insecure])]

WithNewFile(c, path) == [c EXCEPT !.files = @ \cup {path}]

\* value of an environment variable, "" when unset
EnvOf(c, name) == IF \E e \in c.env : e[1] = name
                  THEN (CHOOSE e \in c.env : e[1] = name)[2]
                  ELSE ""

HasEnv(c, name) == \E e \in c.env : e[1] = name

----------------------------------------------------------------------------
(* The world a call works on: the heap, the receiver g and the call logs *)

\* ctr, dir, err: the returned values; ran: the container the command ran in
NoRet == [ctr |-> Nil, dir |-> NilDir, err |-> FALSE, ran |-> Nil]
NoPrep == [called |-> FALSE, from |-> Nil, proj |-> NilDir, mounted |-> Nil, out |-> Nil]
NoAttach == [called |-> FALSE, in |-> Nil, out |-> Nil, err |-> FALSE]

World == [heap |-> heap, Ctr |-> Ctr, Proj |-> Proj, panicked |-> panicked,
          panicAt |-> panicAt, ret |-> ret, prepCalls |-> prepCalls,
          prepLog |-> prepLog, attachLog |-> attachLog,
          services |-> services, svcCalls |-> svcCalls]

\* store a container value under a fresh handle
Alloc(w, c) == [w EXCEPT !.heap = Append(@, c)]
NewHandle(w) == Len(w.heap) + 1

\* a nil pointer dereference: the call ends here
Panic(w, site) == [w EXCEPT !.panicked = TRUE, !.panicAt = site, !.ret = NoRet]

\* the receiver, as the functions see it
G(w) == [Ctr |-> w.Ctr, Proj |-> w.Proj]

----------------------------------------------------------------------------
(* Service: the dockerd service descriptor *)

AsService(c) == [container |-> c]

\* variant: the cache volume is named after the session's container
ServicePerSession(g, dockerVersion) ==
    LET port == 2375
    IN AsService(
         WithExec(
           WithExposedPort(
             WithMountedCache(From("docker:" \o dockerVersion \o "-dind"),
                              "/var/lib/docker",
                              Itoa(g.Ctr) \o "-docker-lib", "PRIVATE"),
             port),
           <<"dockerd", "--host=tcp://0.0.0.0:2375",
             "--host=unix:///var/run/docker.sock", "--tls=false">>,
           TRUE))

Service(g, dockerVersion) ==
    LET port == 2375
    IN AsService(
         WithExec(
           WithExposedPort(
             WithMountedCache(From("docker:" \o dockerVersion \o "-dind"),
                              "/var/lib/docker",
                              dockerVersion \o "-docker-lib", "PRIVATE"),
             port),
           <<"dockerd", "--host=tcp://0.0.0.0:2375",
             "--host=unix:///var/run/docker.sock", "--tls=false">>,
           TRUE))

\* (*Service).Endpoint with a scheme: scheme://host:port of the first
\* exposed port; the engine names the host after the service
Endpoint(svc, scheme) ==
    LET port == CHOOSE p \in svc.container.ports : TRUE
    IN scheme \o "://" \o svc.container.image \o ":" \o Itoa(port)

\* g.Service(v) called: the descriptor is built and logged
CallService(w, dockerVersion) ==
    [w EXCEPT !.services = @ \cup {<<dockerVersion, Service(G(w), dockerVersion)>>},
              !.svcCalls = @ + 1]

----------------------------------------------------------------------------------------------------------------------------------------
(* Attach *)

\* variant: the binding and the variable are written into the input container
AttachBindInPlace(w1, dockerd, container) ==
    [w1 EXCEPT !.heap[container] =
                   WithEnvVariable(WithServiceBinding(@, "docker", dockerd),
                                   "DOCKER_HOST", Endpoint(dockerd, "tcp")),
               !.attachLog = [called |-> TRUE, in |-> container,
                              out |-> container, err |-> FALSE]]

\* lines 133-135: the new container, stored under a fresh handle
AttachBind(w1, dockerd, container) ==
    [Alloc(w1, WithEnvVariable(
                 WithServiceBinding(w1.heap[container], "docker", dockerd),
                 "DOCKER_HOST", Endpoint(dockerd, "tcp")))
       EXCEPT !.attachLog = [called |-> TRUE, in |-> container,
                             out |-> NewHandle(w1), err |-> FALSE]]

\* lines 126-135, after dockerd := g.Service("24.0")
AttachResolve(w1, dockerd, container, resolved) ==
    IF ~resolved
    THEN [w1 EXCEPT !.attachLog = [called |-> TRUE, in |-> container,
                                   out |-> Nil, err |-> TRUE]]
    ELSE IF container = Nil THEN Panic(w1, "Attach:133")
    ELSE AttachBind(w1, dockerd, container)

\* resolved: whether dockerd.Endpoint succeeds
Attach(w, container, resolved) ==
    AttachResolve(CallService(w, ATTACH_VERSION),
                  Service(G(w), ATTACH_VERSION), container, resolved)

----------------------------------------------------------------------------
(* prepare *)

\* lines 276-278: the session's container with the project at /src
Mounted(w) ==
    WithWorkdir(WithDirectory(w.heap[w.Ctr], PROJ_MOUNT, w.Proj), PROJ_MOUNT)

\* variant: the attached container becomes the session's container
prepareReturnWriteBack(w, hc, w2) ==
    [w2 EXCEPT !.prepLog = [called |-> TRUE, from |-> w.Ctr, proj |-> w.Proj,
                            mounted |-> hc, out |-> w2.attachLog.out],
               !.Ctr = IF w2.attachLog.out # Nil THEN w2.attachLog.out ELSE @]

\* lines 280-284: c, err := g.Attach(ctx, c); the error is logged; return c
prepareReturn(w, hc, w2) ==
    [w2 EXCEPT !.prepLog = [called |-> TRUE, from |-> w.Ctr, proj |-> w.Proj,
                            mounted |-> hc, out |-> w2.attachLog.out]]

prepareBody(w, resolved) ==
    IF w.Ctr = Nil THEN Panic(w, "prepare:276")
    ELSE IF w.Proj = NilDir THEN Panic(w, "prepare:277")
    ELSE prepareReturn(w, NewHandle(w),
                       Attach(Alloc(w, Mounted(w)), NewHandle(w), resolved))

prepare(w0, resolved) ==
    prepareBody([w0 EXCEPT !.prepCalls = @ + 1], resolved)

\* the container prepare returned
Prepared(w) == w.prepLog.out

----------------------------------------------------------------------------
(* Setters *)

WithProject(w, dir) == [w EXCEPT !.Proj = dir]

WithContainer(w, ctr) == [w EXCEPT !.Ctr = ctr]

(* Accessors *)

\* return g.Ctr
Container(w) == [w EXCEPT !.ret.ctr = w.Ctr]

\* return g.Ctr.Directory(PROJ_MOUNT)
Project(w) ==
    IF w.Ctr = Nil THEN Panic(w, "Project:231")
    ELSE [w EXCEPT !.ret.dir = CtrDirectory(w.Ctr, PROJ_MOUNT)]

----------------------------------------------------------------------------
(* Base and New *)

\* lines 205-210 and 217-218: the container Base builds
BaseCtr(version, proj) ==
    LET mod == "gomodcache"
        build == "gobuildcache"
        image == "golang:" \o version
    IN WithEnvVariable(
         WithMountedDirectory(
           WithMountedCache(
             WithMountedCache(From(image), "/go/pkg/mod", mod, "SHARED"),
             "/root/.cache/go-build", build, "SHARED"),
           "/src/vendor", SubDirectory(proj, "vendor")),
         "GOFLAGS", "-mod=vendor")

Base(w, version) ==
    IF w.Proj = NilDir
    THEN \* line 209 reads g.Proj.Directory("vendor") before the nil check
         Panic(w, "Base:209")
    ELSE [Alloc(w, BaseCtr(version, w.Proj)) EXCEPT !.Ctr = NewHandle(w)]

\* lines 34-41: g1 is g after the default container, if any, was built
NewFill(g1, c, proj) ==
    IF g1.panicked THEN g1
    ELSE [g1 EXCEPT !.Ctr = c,
                    !.Proj = IF proj # NilDir THEN proj
                             ELSE CtrDirectory(c, PROJ_MOUNT)]

NewDefault(g0, ctr, proj) ==
    IF ctr = Nil THEN NewFill(Base(g0, DEFAULT_GO), NewHandle(g0), proj)
    ELSE NewFill(g0, ctr, proj)

\* g := &Golang{} ; the fields are filled from the arguments
New(w, ctr, proj) ==
    NewDefault([w EXCEPT !.Ctr = Nil, !.Proj = NilDir], ctr, proj)

----------------------------------------------------------------------------
(* Operations *)

\* a command executed in the container c, built from the container of
\* handle h: calling a method on a nil h panics
RunOn(w, h, c, site) ==
    IF w.panicked THEN w
    ELSE IF h = Nil THEN Panic(w, site)
    ELSE [Alloc(w, c) EXCEPT !.ret.ctr = NewHandle(w), !.ret.ran = NewHandle(w)]

\* WithEnvVariable for each <<name, value>> of envs, in order
RECURSIVE WithEnvVariables(_, _)
WithEnvVariables(c, envs) ==
    IF envs = <<>> THEN c
    ELSE WithEnvVariables(WithEnvVariable(c, envs[1][1], envs[1][2]), Tail(envs))

\* g.prepare(ctx).WithEnvVariable(...).WithExec(command), w being the world
\* after prepare
RunPrepared(w, envs, command, site) ==
    RunOn(w, Prepared(w),
          WithExec(WithEnvVariables(w.heap[Prepared(w)], envs), command, FALSE),
          site)

\* if source != nil { g = g.WithProject(source) }
Rebind(w, source) == IF source # NilDir THEN WithProject(w, source) ELSE w

\* ... else { g = g.WithProject(g.Ctr.Directory(PROJ_MOUNT)) }
RebindOrDefault(w, source) ==
    IF source # NilDir THEN WithProject(w, source)
    ELSE WithProject(w, CtrDirectory(w.Ctr, PROJ_MOUNT))

\* .Directory(path) of the container the command ran in
ReturnDirectory(w, path) ==
    IF w.panicked THEN w
    ELSE [w EXCEPT !.ret.dir = CtrDirectory(w.ret.ctr, path), !.ret.err = FALSE]

\* .Stdout(ctx): the command's error, if any, is returned
ReturnStdout(w, cmdOK) ==
    IF w.panicked THEN w
    ELSE [w EXCEPT !.ret.dir = NilDir, !.ret.err = ~cmdOK]

Build(w, source, args, arch, os, resolved) ==
    LET a == IF arch = "" THEN HostArch ELSE arch
        o == IF os = "" THEN HostOS ELSE os
        command == <<"go", "build", "-o", OUT_DIR>> \o args
    IN ReturnDirectory(
         RunPrepared(prepare(Rebind(w, source), resolved),
                     <<<<"GOARCH", a>>, <<"GOOS", o>>>>, command,
                     "Build:74"),
         OUT_DIR)

\* lines 100-104: w2 is the world with the base container, b its handle
BuildContainerCopy(w2, b, dir) ==
    [Alloc(w2, WithDirectory(w2.heap[b], "/usr/local/bin/", dir)) EXCEPT
        !.ret.ctr = NewHandle(w2), !.ret.dir = NilDir, !.ret.err = FALSE]

BuildContainerBase(w1, base) ==
    IF w1.panicked THEN w1
    ELSE IF base = Nil
    THEN BuildContainerCopy(Alloc(w1, From("ubuntu:latest")), NewHandle(w1),
                            w1.ret.dir)
    ELSE BuildContainerCopy(w1, base, w1.ret.dir)

BuildContainer(w, source, args, arch, os, base, resolved) ==
    BuildContainerBase(Build(w, source, args, arch, os, resolved), base)

\* cmdOK: whether the command exits with status 0
Test(w, source, component, coverageLocation, timeout, resolved, cmdOK) ==
    LET command == <<"go", "test", component, "-coverprofile", coverageLocation,
                     "-timeout", timeout, "-v">>
    IN ReturnStdout(
         RunPrepared(prepare(RebindOrDefault(w, source), resolved),
                     <<>>, command,
                     "Test:117"),
         cmdOK)

\* line 178: g.Ctr = g.prepare(ctx).WithExec(go install ...)
VulncheckInstall(w1, resolved1) ==
    RunPrepared(prepare(w1, resolved1),
                <<>>, <<"go", "install", "golang.org/x/vuln/cmd/govulncheck@latest">>,
                "Vulncheck:178")

\* variant: the install step is not stored in g.Ctr
VulncheckStoreNothing(w3) == w3

VulncheckStore(w3) == IF w3.panicked THEN w3 ELSE [w3 EXCEPT !.Ctr = w3.ret.ctr]

\* variant: the scanner runs in the container of the install step, which is
\* not prepared a second time
VulncheckScanUnprepared(w4, component, resolved2) ==
    IF w4.panicked THEN w4
    ELSE RunOn(w4, w4.Ctr,
               WithExec(w4.heap[w4.Ctr], <<"govulncheck", "-C", component>>, FALSE),
               "Vulncheck:180")

\* line 180: g.prepare(ctx).WithExec(govulncheck -C component)
VulncheckScan(w4, component, resolved2) ==
    IF w4.panicked THEN w4
    ELSE RunPrepared(prepare(w4, resolved2),
                     <<>>, <<"govulncheck", "-C", component>>,
                     "Vulncheck:180")

Vulncheck(w, source, component, resolved1, resolved2, cmdOK) ==
    ReturnStdout(
      VulncheckScan(
        VulncheckStore(VulncheckInstall(Rebind(w, source), resolved1)),
        component, resolved2),
      cmdOK)

\* lines 192-196, w1 being the world after the project was rebound
GolangciLintRun(w1, component, timeout, cmdOK) ==
    [Alloc(w1, WithExec(
                 WithWorkdir(
                   WithMountedDirectory(From(LINT_IMAGE), PROJ_MOUNT, w1.Proj),
                   PROJ_MOUNT \o "/" \o component),
                 <<"golangci-lint", "run", "-v", "--timeout", timeout>>, FALSE))
       EXCEPT !.ret = [ctr |-> NewHandle(w1), dir |-> NilDir, err |-> ~cmdOK,
                       ran |-> NewHandle(w1)]]

GolangciLint(w, source, component, timeout, cmdOK) ==
    GolangciLintRun(RebindOrDefault(w, source), component, timeout, cmdOK)

BuildRemote(w, remote, ref, module, arch, platform, resolved) ==
    LET git == GitTree(remote, ref)
        a == IF arch = "" THEN HostArch ELSE arch
        o == IF platform = "" THEN HostOS ELSE platform
        command == <<"go", "build", "-o", "build/">> \o <<module>>
    IN ReturnDirectory(
         RunPrepared(prepare(WithProject(w, git), resolved),
                     <<<<"GOARCH", a>>, <<"GOOS", o>>>>, command,
                     "BuildRemote:268"),
         PROJ_MOUNT \o "/build/")

----------------
(* Inputs *)

UserCtr == 1                       \* a container the caller brings
UserImage == "alpine:3.18"
Sources == {NilDir, Tree("T2")}    \* the optional source argument
Projects == {NilDir, Tree("T1")}   \* the optional proj argument of New
Dirs == {NilDir, Tree("T1"), Tree("T2")}
CtrArgs == {Nil, UserCtr}          \* an optional container argument
GoVersions == {"1.23.4", "1.24"}
DockerVersions == {"24.0", "25.0"}
Archs == {"", "arm64"}
Component == "./..."

MsIdle == [pc |-> "idle", ctrs |-> <<>>, i |-> 0, hck |-> {}, written |-> {},
           failed |-> {}, entries |-> {}, err |-> FALSE]

----------------------------------------------------------------------------
(* Actions: one per public function *)

\* the world at the start of a call: the logs of the previous call are gone
Fresh == [World EXCEPT !.ret = NoRet, !.prepLog = NoPrep, !.attachLog = NoAttach]

Commit(w, op) ==
    /\ heap' = w.heap
    /\ Ctr' = w.Ctr
    /\ Proj' = w.Proj
    /\ panicked' = w.panicked
    /\ panicAt' = w.panicAt
    /\ ret' = w.ret
    /\ prepCalls' = w.prepCalls
    /\ prepLog' = w.prepLog
    /\ attachLog' = w.attachLog
    /\ services' = w.services
    /\ svcCalls' = w.svcCalls
    /\ lastOp' = op
    /\ nops' = nops + 1
    /\ UNCHANGED ms

CanCall == ~panicked /\ nops < MaxOps /\ ms.pc = "idle"

DoNew ==
    /\ CanCall
    /\ \E ctr \in CtrArgs, proj \in Projects :
          LET w == New(Fresh, ctr, proj)
          IN /\ Commit(w, "New")
             /\ constructed' = ~w.panicked
             /\ lastSource' = NilDir

DoBuild ==
    /\ CanCall /\ constructed
    /\ \E source \in Sources, arch \in Archs, resolved \in BOOLEAN :
          /\ lastSource' = source
          /\ Commit(Build(Fresh, source, <<Component>>, arch, "", resolved), "Build")
    /\ UNCHANGED constructed

DoBuildContainer ==
    /\ CanCall /\ constructed
    /\ \E source \in Sources, base \in CtrArgs, resolved \in BOOLEAN :
          /\ lastSource' = source
          /\ Commit(BuildContainer(Fresh, source, <<Component>>, "", "", base, resolved),
                 "BuildContainer")
    /\ UNCHANGED constructed

DoTest ==
    /\ CanCall /\ constructed
    /\ \E source \in Sources, resolved \in BOOLEAN, cmdOK \in BOOLEAN :
          /\ lastSource' = source
          /\ Commit(Test(Fresh, source, Component, "./", "180s", resolved, cmdOK), "Test")
    /\ UNCHANGED constructed

DoVulncheck ==
    /\ CanCall /\ constructed
    /\ \E source \in Sources, resolved1 \in BOOLEAN, resolved2 \in BOOLEAN,
          cmdOK \in BOOLEAN :
          /\ lastSource' = source
          /\ Commit(Vulncheck(Fresh, source, Component, resolved1, resolved2, cmdOK),
                 "Vulncheck")
    /\ UNCHANGED constructed

DoGolangciLint ==
    /\ CanCall /\ constructed
    /\ \E source \in Sources, cmdOK \in BOOLEAN :
          /\ lastSource' = source
          /\ Commit(GolangciLint(Fresh, source, Component, "5m", cmdOK), "GolangciLint")
    /\ UNCHANGED constructed

DoBuildRemote ==
    /\ CanCall /\ constructed
    /\ \E resolved \in BOOLEAN :
          Commit(BuildRemote(Fresh, "github.com/acme/tool", "main", "./cmd/tool",
                             "", "", resolved), "BuildRemote")
    /\ lastSource' = NilDir
    /\ UNCHANGED constructed

DoBase ==
    /\ CanCall /\ constructed
    /\ \E version \in GoVersions :
          Commit([Base(Fresh, version) EXCEPT !.ret.ctr = Nil], "Base")
    /\ lastSource' = NilDir
    /\ UNCHANGED constructed

DoWithProject ==
    /\ CanCall /\ constructed
    /\ \E dir \in Dirs : Commit(WithProject(Fresh, dir), "WithProject")
    /\ lastSource' = NilDir
    /\ UNCHANGED constructed

\* the callers of this model always bring a container
DoWithContainer ==
    /\ CanCall /\ constructed
    /\ \E ctr \in CtrArgs \ {Nil} : Commit(WithContainer(Fresh, ctr), "WithContainer")
    /\ lastSource' = NilDir
    /\ UNCHANGED constructed

DoAttach ==
    /\ CanCall /\ constructed
    /\ \E container \in {Ctr, UserCtr}, resolved \in BOOLEAN :
          LET w == Attach(Fresh, container, resolved)
          IN Commit([w EXCEPT !.ret.ctr = w.attachLog.out,
                              !.ret.err = w.attachLog.err], "Attach")
    /\ lastSource' = NilDir
    /\ UNCHANGED constructed

DoService ==
    /\ CanCall /\ constructed
    /\ \E dockerVersion \in DockerVersions :
          Commit(CallService(Fresh, dockerVersion), "Service")
    /\ lastSource' = NilDir
    /\ UNCHANGED constructed

DoContainer ==
    /\ CanCall /\ constructed
    /\ Commit(Container(Fresh), "Container")
    /\ lastSource' = NilDir
    /\ UNCHANGED constructed

DoProject ==
    /\ CanCall /\ constructed
    /\ Commit(Project(Fresh), "Project")
    /\ lastSource' = NilDir
    /\ UNCHANGED constructed

Init ==
    /\ heap = <<From(UserImage)>>
    /\ Ctr = Nil
    /\ Proj = NilDir
    /\ constructed = FALSE
    /\ panicked = FALSE
    /\ panicAt = ""
    /\ lastOp = ""
    /\ ret = NoRet
    /\ prepCalls = 0
    /\ prepLog = NoPrep
    /\ attachLog = NoAttach
    /\ services = {}
    /\ svcCalls = 0
    /\ nops = 0
    /\ lastSource = NilDir
    /\ ms = MsIdle

Next ==
    \/ DoNew
    \/ DoBuild
    \/ DoBuildContainer
    \/ DoTest
    \/ DoVulncheck
    \/ DoGolangciLint
    \/ DoBuildRemote
    \/ DoBase
    \/ DoWithProject
    \/ DoWithContainer
    \/ DoAttach
    \/ DoService
    \/ DoContainer
    \/ DoProject

Spec == Init /\ [][Next]_vars

TypeOK ==
    /\ Ctr \in 0..Len(heap)
    /\ constructed => Ctr # Nil

----------------------------------------------------------------------------
(* Utils.Multisync.  The engine is lazy: the loop only describes the       *)
(* aggregate directory; hck.Entries makes the engine write the marker      *)
(* files, in any order, and list the directory when its files exist.       *)

MsImages == <<"alpine:3.18", "ubuntu:latest", "golang:1.24">>

\* the lists of containers a caller passes
RECURSIVE SeqsUpTo(_, _)
SeqsUpTo(S, n) ==
    IF n = 0 THEN {<<>>}
    ELSE LET shorter == SeqsUpTo(S, n - 1)
         IN shorter \cup {Append(q, x) : q \in {r \in shorter : Len(r) = n - 1}, x \in S}

\* (*Directory).WithFile(path, file): source is the container the file is read from
WithFile(dir, path, source) ==
    {f \in dir : f[1] # path} \cup {<<path, source>>}

\* variant: every marker file is stored under the same name
MultisyncStepUnindexed(hck, i, ctr) ==
    LET ctrFile == "/syncfile"
    IN WithFile(hck, ctrFile, ctr)

\* one iteration of the loop body, for index i (from 0) and container ctr
MultisyncStep(hck, i, ctr) ==
    LET ctrFile == "/syncfile" \o Itoa(i)
    IN WithFile(hck, ctrFile, ctr)

\* the marker files the aggregate needs and the engine has not yet written
MsPending(m) == {f[2] : f \in m.hck} \ (m.written \cup m.failed)

\* hck.Entries can answer: every file of the aggregate exists, or a write failed
EntriesReady(m) == MsPending(m) = {} \/ m.failed # {}

MsCall ==
    /\ ms.pc = "idle"
    /\ \E ctrs \in SeqsUpTo(1..Len(heap), MaxCtrs) :
          ms' = [MsIdle EXCEPT !.pc = "loop", !.ctrs = ctrs]
    /\ UNCHANGED coreVars

MsLoop ==
    /\ ms.pc = "loop"
    /\ ms.i < Len(ms.ctrs)
    /\ ms' = [ms EXCEPT !.hck = MultisyncStep(@, ms.i, ms.ctrs[ms.i + 1]),
                        !.i = @ + 1]
    /\ UNCHANGED coreVars

MsEntries ==
    /\ ms.pc = "loop"
    /\ ms.i = Len(ms.ctrs)
    /\ ms' = [ms EXCEPT !.pc = "entries"]
    /\ UNCHANGED coreVars

\* the engine writes /syncfile in one of the containers (WithNewFile)
MsWrite ==
    /\ ms.pc = "entries"
    /\ \E h \in MsPending(ms), ok \in BOOLEAN :
          ms' = IF ok THEN [ms EXCEPT !.written = @ \cup {h}]
                ELSE [ms EXCEPT !.failed = @ \cup {h}]
    /\ UNCHANGED coreVars

\* hck.Entries returns and Multisync returns its error
MsReturn ==
    /\ ms.pc = "entries"
    /\ EntriesReady(ms)
    /\ ms' = [ms EXCEPT !.pc = "done",
                        !.err = (ms.failed # {}),
                        !.entries = IF ms.failed # {} THEN {}
                                    ELSE {f[1] : f \in ms.hck}]
    /\ UNCHANGED coreVars

InitMS ==
    /\ heap = [k \in 1..Len(MsImages) |-> From(MsImages[k])]
    /\ Ctr = Nil
    /\ Proj = NilDir
    /\ constructed = FALSE
    /\ panicked = FALSE
    /\ panicAt = ""
    /\ lastOp = ""
    /\ ret = NoRet
    /\ prepCalls = 0
    /\ prepLog = NoPrep
    /\ attachLog = NoAttach
    /\ services = {}
    /\ svcCalls = 0
    /\ nops = 0
    /\ lastSource = NilDir
    /\ ms = MsIdle

NextMS ==
    \/ MsCall
    \/ MsLoop
    \/ MsEntries
    \/ MsWrite
    \/ MsReturn

SpecMS == InitMS /\ [][NextMS]_vars

----------------------------------------------------------------------------
(* Properties *)

InstallCmd == <<"go", "install", "golang.org/x/vuln/cmd/govulncheck@latest">>
DockerHost24 == "tcp://docker:24.0-dind:2375"

\* the container of handle h, in heap hp, has project tree t at /src and
\* works in /src
MountedAt(hp, h, t) ==
    /\ h # Nil
    /\ <<PROJ_MOUNT, "copy", t>> \in hp[h].dirs
    /\ hp[h].workdir = PROJ_MOUNT

\* the container of handle h, in heap hp, is attached to the daemon
Attached(hp, h) ==
    /\ h # Nil
    /\ \E b \in hp[h].bindings :
          /\ b[1] = "docker"
          /\ b[2].container.image = "docker:24.0-dind"
          /\ EnvOf(hp[h], "DOCKER_HOST") = Endpoint(b[2], "tcp")
    /\ EnvOf(hp[h], "DOCKER_HOST") = DockerHost24

\* C1: the container prepare produces always has the project tree of the
\* Build State at /src and /src as its working directory, whether endpoint
\* resolution succeeded or failed.
C1_PreparedAlwaysMounted ==
    prepLog.called => MountedAt(heap, prepLog.out, prepLog.proj)

\* C2: when endpoint resolution fails, Attach returns an error together
\* with a container that equals its input.
C2_AttachFailureReturnsInput ==
    (attachLog.called /\ attachLog.err) =>
        /\ attachLog.out # Nil
        /\ heap[attachLog.out] = heap[attachLog.in]

\* C3: when endpoint resolution succeeds, Attach returns a new container
\* that is its input plus the service bound as peer docker and DOCKER_HOST
\* set to the resolved tcp address; the input container, and every other
\* container that existed before the call, is left as it was.
C3_AttachSuccess ==
    [][(attachLog'.called /\ ~attachLog'.err /\ ~panicked') =>
          LET in == attachLog'.in
              out == attachLog'.out
          IN /\ out # Nil
             /\ out # in
             /\ Attached(heap', out)
             /\ heap'[out].image = heap'[in].image
             /\ heap'[out].dirs = heap'[in].dirs
             /\ heap'[out].workdir = heap'[in].workdir
             /\ heap'[out].execs = heap'[in].execs
             /\ heap'[out].caches = heap'[in].caches
             /\ {e \in heap'[out].env : e[1] # "DOCKER_HOST"}
                   = {e \in heap'[in].env : e[1] # "DOCKER_HOST"}
             /\ \A h \in 1..Len(heap) : heap'[h] = heap[h]]_vars

C3_Witness ==
    /\ lastOp = "Attach"
    /\ ~attachLog.err
    /\ attachLog.in = Ctr
    /\ Attached(heap, attachLog.out)
    /\ heap[attachLog.in].bindings = {}
    /\ ~HasEnv(heap[attachLog.in], "DOCKER_HOST")

\* C4: once New has been called, with a container or without, and after
\* any sequence of calls, the session's current container is present.
C4_ContainerAlwaysPresent ==
    lastOp # "" => Ctr # Nil

\* C5: Base on a Build State without a project tree, the call New makes
\* for an absent container included, does not fail and leaves a container
\* and a project both present.
C5_BaseDefaultsProject ==
    lastOp \in {"New", "Base"} => (~panicked /\ Ctr # Nil /\ Proj # NilDir)

PipelineOps == {"Build", "BuildContainer", "Test", "Vulncheck", "GolangciLint",
                "BuildRemote"}

FirstExec(c, word) ==
    IF \E i \in 1..Len(c.execs) : c.execs[i].args[1] = word
    THEN CHOOSE i \in 1..Len(c.execs) :
            /\ c.execs[i].args[1] = word
            /\ \A j \in 1..(i - 1) : c.execs[j].args[1] # word
    ELSE 0

\* C7: govulncheck runs only in a container in which the install step was
\* executed before it, and after Vulncheck returns the session's container
\* is the prepared (mounted, attached) container with the install step
\* applied, which is not the container held before the call.
C7_VulncheckInstallFirst ==
    [][/\ \A h \in 1..Len(heap') :
             \A i \in 1..Len(heap'[h].execs) :
                heap'[h].execs[i].args[1] = "govulncheck" =>
                   \E j \in 1..(i - 1) : heap'[h].execs[j].args = InstallCmd
       /\ (lastOp' = "Vulncheck" /\ ~panicked') =>
             /\ Ctr' # Ctr
             /\ Ctr' > Len(heap)
             /\ heap'[Ctr'].execs = Append(heap[Ctr].execs,
                                           [args |-> InstallCmd, insecure |-> FALSE])
             /\ MountedAt(heap', Ctr', Proj')
             /\ Attached(heap', Ctr')
             /\ heap'[ret'.ran].execs[Len(heap'[ret'.ran].execs)].args
                   = <<"govulncheck", "-C", Component>>]_vars

C7_Witness ==
    /\ lastOp = "Vulncheck"
    /\ ~panicked
    /\ heap[Ctr].execs[Len(heap[Ctr].execs)].args = InstallCmd
    /\ FirstExec(heap[ret.ran], "govulncheck") > FirstExec(heap[ret.ran], "go")
    /\ FirstExec(heap[ret.ran], "go") > 0

\* C8: Attach and the operations Build, BuildContainer, Test, GolangciLint
\* and BuildRemote leave the session's container handle, and the container
\* behind it, as they were, whether attachment succeeds or fails; within a
\* session only Base, WithContainer and Vulncheck replace the handle (New
\* starts a session).
C8_NoAutomaticWriteBack ==
    [][/\ lastOp' \in {"Attach", "Build", "BuildContainer", "Test", "GolangciLint",
                       "BuildRemote"} =>
             (Ctr' = Ctr /\ heap'[Ctr] = heap[Ctr])
       /\ (Ctr' # Ctr) => lastOp' \in {"Base", "WithContainer", "Vulncheck", "New"}]_vars

C8_Witness ==
    /\ lastOp = "Build"
    /\ ~panicked
    /\ Attached(heap, prepLog.out)
    /\ Ctr = prepLog.from
    /\ Ctr # prepLog.out
    /\ ~Attached(heap, Ctr)

\* the descriptor section 4.1 describes for version v
Dind(v) ==
    [container |->
       [EmptyCtr EXCEPT
          !.image = "docker:" \o v \o "-dind",
          !.caches = {<<"/var/lib/docker", v \o "-docker-lib", "PRIVATE">>},
          !.ports = {2375},
          !.execs = <<[args |-> <<"dockerd", "--host=tcp://0.0.0.0:2375",
                                  "--host=unix:///var/run/docker.sock",
                                  "--tls=false">>,
                       insecure |-> TRUE]>>]]

\* the docker-lib cache volumes of the descriptors built so far
DockerLibVolumes == {m[2] : m \in UNION {s[2].container.caches : s \in services}}

\* C9: every descriptor Service built for version v, in whatever Build
\* State it was called, is the dind descriptor of v, so two calls with the
\* same version agree and all attachments reference at most one docker-lib
\* volume per version; a call of Service changes no Build State.
C9_ServicePure ==
    /\ [](/\ \A s \in services : s[2] = Dind(s[1])
          /\ \A s, t \in services : s[1] = t[1] => s[2] = t[2]
          /\ Cardinality(DockerLibVolumes) <= Cardinality({s[1] : s \in services}))
    /\ [][lastOp' = "Service" =>
             (Ctr' = Ctr /\ Proj' = Proj /\ heap' = heap /\ svcCalls' = svcCalls + 1)]_vars

C9_Witness ==
    /\ lastOp = "Service"
    /\ svcCalls >= 3
    /\ Cardinality(services) = 2
    /\ Cardinality(DockerLibVolumes) = 2
    /\ Cardinality(DOMAIN heap) > 1

\* C10: the aggregate directory of Multisync over N containers has exactly
\* N entries, /syncfile0 .. /syncfile(N-1), one per position of the input;
\* the listing is returned only when the marker file of every input
\* container has been written; for N = 0 the listing is empty and no error
\* is returned.
C10_Multisync ==
    /\ ms.pc \in {"entries", "done"} =>
          /\ Cardinality(ms.hck) = Len(ms.ctrs)
          /\ \A i \in 1..Len(ms.ctrs) :
                <<"/syncfile" \o Itoa(i - 1), ms.ctrs[i]>> \in ms.hck
    /\ (ms.pc = "done" /\ ~ms.err) =>
          /\ Cardinality(ms.entries) = Len(ms.ctrs)
          /\ \A i \in 1..Len(ms.ctrs) : ms.ctrs[i] \in ms.written
    /\ (ms.pc = "done" /\ Len(ms.ctrs) = 0) => (~ms.err /\ ms.entries = {})

C10_Witness ==
    /\ ms.pc = "done"
    /\ ~ms.err
    /\ Len(ms.ctrs) = 3
    /\ Cardinality(ms.entries) = 3
    /\ Cardinality(ms.written) = 2

\* the container of handle h, in heap hp, has tree t at /src (copied or mounted)
ProjectAt(hp, h, t) ==
    /\ h # Nil
    /\ \E m \in hp[h].dirs : m[1] = PROJ_MOUNT /\ m[3] = t

\* C11: Test or GolangciLint called without a source on a Build State that
\* has a project tree bound runs against that tree and leaves it bound; the
\* default, /src of the current container, replaces only an absent tree.
C11_SourcelessKeepsProject ==
    [][(lastOp' \in {"Test", "GolangciLint"} /\ lastSource' = NilDir
          /\ Proj # NilDir) =>
          /\ Proj' = Proj
          /\ (~panicked') => ProjectAt(heap', ret'.ran, Proj)]_vars

\* C12: Project() called right after WithProject(T) returns T, and
\* Container() called right after WithContainer(C) returns C; the accessors
\* change nothing, WithProject changes only the project tree and
\* WithContainer only the container.
C12_SetterAccessorRoundTrip ==
    [][/\ (lastOp = "WithProject" /\ Proj # NilDir /\ lastOp' = "Project") =>
             ret'.dir = Proj
       /\ (lastOp = "WithContainer" /\ lastOp' = "Container") => ret'.ctr = Ctr
       /\ lastOp' \in {"Project", "Container"} =>
             (Ctr' = Ctr /\ Proj' = Proj /\ heap' = heap)
       /\ lastOp' = "WithProject" => (Ctr' = Ctr /\ heap' = heap)
       /\ lastOp' = "WithContainer" => (Proj' = Proj /\ heap' = heap)]_vars

====
